---- MODULE Spec2Model ----
(***************************************************************************)
(* Huffman coding of haffman_method.py: Node, HuffmanMethod (tree          *)
(* construction, code generation, encode_text, decode_text) and            *)
(* HuffmanBasedProcessor (frequency count, leaf creation, delegation).     *)
(*                                                                         *)
(* A text is a sequence of one-character strings; a bit string is a        *)
(* sequence of one-character tokens.  A Node is a record with the fields   *)
(* of the Python class.  Every HuffmanMethod, with the processor around it *)
(* when it has one, lives at an index of Inst; the variables are functions *)
(* over Inst.                                                              *)
(*                                                                         *)
(* Caesar cipher of cezar_cipher.py: CaesarCipher with its default         *)
(* alphabet.  A character is a record of a letter name and its case; the   *)
(* Cyrillic letters are named by their transliteration.                    *)
(***************************************************************************)
EXTENDS Integers, Sequences, FiniteSets, TLC

\* ---------------------------------------------------------------- bounds
\* longest text handed to HuffmanBasedProcessor(text)
MaxLen == 4
\* longest explicit text handed to encode_text(text)
MaxEnc == 2
\* longest token string handed to decode_text(text)
MaxBits == 3
\* largest frequency of a leaf handed to HuffmanMethod(nodes)
MaxWeight == 3
\* CaesarCipher(shift) takes its shift from -MaxShift..MaxShift
MaxShift == 35
\* longest text handed to CaesarCipher.encode_text(text)
MaxCaesarLen == 2

SymbolSeq == <<"a", "b", "c", "d">>
Symbols == {SymbolSeq[k] : k \in DOMAIN SymbolSeq}
Tokens == {"0", "1", "2"}
Inst == {1, 2}

VARIABLES
    base_text,   \* HuffmanBasedProcessor.base_text
    nodes,       \* HuffmanBasedProcessor.nodes, HuffmanMethod.base_nodes
    copy_nodes,  \* the local candidate list of _create_root_of_tree
    root,        \* HuffmanMethod.root
    code_dict,   \* HuffmanMethod.code_dict
    pc,          \* where the caller's use of the object stands
    exc,         \* the exception the last operation raised to the caller
    enc_arg,     \* the text encode_text worked on
    encoded,     \* what encode_text returned
    dec_arg,     \* the string handed to decode_text
    decoded,     \* what decode_text returned
    created,     \* history: the internal nodes made so far, oldest first
    shift,       \* CaesarCipher.shift
    original,    \* the text handed to CaesarCipher.encode_text
    enc_result,  \* what CaesarCipher.encode_text returned
    dec_result,  \* what CaesarCipher.decode_text returned
    caesar_pc    \* where the caller's use of the CaesarCipher stands

huffmanVars == <<base_text, nodes, copy_nodes, root, code_dict, pc, exc,
                 enc_arg, encoded, dec_arg, decoded, created>>

caesarVars == <<shift, original, enc_result, dec_result, caesar_pc>>

vars == <<huffmanVars, caesarVars>>

\* ------------------------------------------------------------ Python values
\* Python's None as a character, as a node reference, as a string, as a dict
None == "None"
NoNode == [none |-> TRUE]
NoStr == <<None>>
NoDict == <<>>
NoExc == "none"
\* no CaesarCipher has been made: there is no shift yet
NoShift == "None"

Node(char, frequency, left, right) ==
    [char |-> char, frequency |-> frequency, left |-> left, right |-> right]

\* ------------------------------------------------------------ input sets
SeqsUpTo(S, n) == UNION {[1..k -> S] : k \in 0..n}

Leaf(char, frequency) == Node(char, frequency, NoNode, NoNode)

\* the leaves of the frequencies a:5 b:9 c:12 d:13 e:16 f:45, in that order
TextbookNodes ==
    <<Leaf("a", 5), Leaf("b", 9), Leaf("c", 12), Leaf("d", 13),
      Leaf("e", 16), Leaf("f", 45)>>

\* the leaves of a frequency table over the first symbols
LeavesOf(w) == [k \in DOMAIN w |-> Leaf(SymbolSeq[k], w[k])]

NodeLists ==
    {LeavesOf(w) : w \in SeqsUpTo(1..MaxWeight, Len(SymbolSeq))}
        \cup {TextbookNodes}
Texts == SeqsUpTo(Symbols, MaxLen)
EncArgs == SeqsUpTo(Symbols, MaxEnc) \cup {NoStr}
TokenStrings == SeqsUpTo(Tokens, MaxBits)

\* ------------------------------------------------------------ frequency count
Range(s) == {s[k] : k \in DOMAIN s}

\* the keys of Counter(text), in the order of first occurrence
RECURSIVE Keys(_)
Keys(text) ==
    IF text = <<>> THEN <<>>
    ELSE LET front == Keys(SubSeq(text, 1, Len(text) - 1))
             last == text[Len(text)]
         IN IF last \in Range(front) THEN front ELSE Append(front, last)

\* Counter(self.base_text).items()
_count_chars_freq(text) ==
    LET keys == Keys(text)
    IN [k \in 1..Len(keys) |->
           <<keys[k], Cardinality({j \in DOMAIN text : text[j] = keys[k]})>>]

\* the list self.nodes: one leaf per item of the counter
_create_huffman_tree(text) ==
    LET freq_dict == _count_chars_freq(text)
    IN [k \in 1..Len(freq_dict) |->
           Leaf(freq_dict[k][1], freq_dict[k][2])]

\* ------------------------------------------------------------ tree construction
\* list.sort(key=frequency): ascending and stable (equal keys keep their order)
RECURSIVE SortByFrequency(_)
SortByFrequency(s) ==
    IF s = <<>> THEN <<>>
    ELSE LET front == SortByFrequency(SubSeq(s, 1, Len(s) - 1))
             last == s[Len(s)]
             keep == {k \in DOMAIN front : front[k].frequency <= last.frequency}
         IN SubSeq(front, 1, Cardinality(keep)) \o <<last>>
                \o SubSeq(front, Cardinality(keep) + 1, Len(front))

\* MergeBody without the sort: the first two of the list are merged
MergeBodyUnsorted(cn) ==
    LET left_p == cn[1]
        right_p == cn[2]
        new_node == Node(None, left_p.frequency + right_p.frequency,
                         left_p, right_p)
    IN Append(SubSeq(cn, 3, Len(cn)), new_node)

\* MergeBody with the sort reversed: the two heaviest are merged
MergeBodyDescending(cn) ==
    LET sorted == SortByFrequency(cn)
        n == Len(sorted)
        left_p == sorted[n]
        right_p == sorted[n - 1]
        new_node == Node(None, left_p.frequency + right_p.frequency,
                         left_p, right_p)
    IN Append(SubSeq(sorted, 1, n - 2), new_node)

\* MergeBody with the two extracted nodes attached the other way round
MergeBodySwapped(cn) ==
    LET sorted == SortByFrequency(cn)
        left_p == sorted[2]
        right_p == sorted[1]
        new_node == Node(None, left_p.frequency + right_p.frequency,
                         left_p, right_p)
    IN Append(SubSeq(sorted, 3, Len(sorted)), new_node)

\* MergeBody with the merged node put at the front of the list
MergeBodyNewFirst(cn) ==
    LET sorted == SortByFrequency(cn)
        left_p == sorted[1]
        right_p == sorted[2]
        new_node == Node(None, left_p.frequency + right_p.frequency,
                         left_p, right_p)
    IN <<new_node>> \o SubSeq(sorted, 3, Len(sorted))

\* one pass of the while loop: sort, pop(0) twice, append the merged node
MergeBody(cn) ==
    LET sorted == SortByFrequency(cn)
        left_p == sorted[1]
        right_p == sorted[2]
        new_node == Node(None, left_p.frequency + right_p.frequency,
                         left_p, right_p)
    IN Append(SubSeq(sorted, 3, Len(sorted)), new_node)

\* ------------------------------------------------------------ code generation
\* _generate_codes with "0" appended on both descents
RECURSIVE GenerateCodesSameDigit(_, _)
GenerateCodesSameDigit(node, prefix) ==
    IF node.char # None
    THEN node.char :> prefix
    ELSE GenerateCodesSameDigit(node.right, Append(prefix, "0"))
             @@ GenerateCodesSameDigit(node.left, Append(prefix, "0"))

\* the dict filled by the recursion; the right subtree is written after the
\* left one, so on a repeated key its entry is the one that stays
RECURSIVE _generate_codes(_, _)
_generate_codes(node, prefix) ==
    IF node.char # None
    THEN node.char :> prefix
    ELSE _generate_codes(node.right, Append(prefix, "1"))
             @@ _generate_codes(node.left, Append(prefix, "0"))

\* ------------------------------------------------------------ encode, decode
\* char_list of encode_text, joined: the codes of the characters that
\* code_dict.get finds, in order; the others add nothing
RECURSIVE JoinCodes(_, _, _)
JoinCodes(cd, text, k) ==
    IF k > Len(text) THEN <<>>
    ELSE (IF text[k] \in DOMAIN cd THEN cd[text[k]] ELSE <<>>)
             \o JoinCodes(cd, text, k + 1)

\* encode_text with code_dict[char] in place of code_dict.get(char)
EncodeTextIndexing(cd, text) ==
    IF \E k \in DOMAIN text : text[k] \notin DOMAIN cd
    THEN [exc |-> "KeyError", value |-> NoStr]
    ELSE [exc |-> NoExc, value |-> JoinCodes(cd, text, 1)]

encode_text(cd, text) == [exc |-> NoExc, value |-> JoinCodes(cd, text, 1)]

\* DecodeLoop that stays on the leaf after emitting its symbol
RECURSIVE DecodeLoopNoReset(_, _, _, _, _)
DecodeLoopNoReset(rt, temp_node, encoded_text, k, result) ==
    IF k > Len(encoded_text) THEN [exc |-> NoExc, value |-> result]
    ELSE IF temp_node = NoNode
    THEN [exc |-> "AttributeError", value |-> NoStr]
    ELSE LET bit == encoded_text[k]
             next == IF bit = "0" THEN temp_node.left ELSE temp_node.right
         IN IF next = NoNode
            THEN [exc |-> "AttributeError", value |-> NoStr]
            ELSE IF next.char # None
            THEN DecodeLoopNoReset(rt, next, encoded_text, k + 1,
                                   Append(result, next.char))
            ELSE DecodeLoopNoReset(rt, next, encoded_text, k + 1, result)

\* the for loop of decode_text from token k on: temp_node the current
\* position and result the characters emitted so far.  A leaf has no
\* children: stepping from it yields None, and None.char raises, as
\* None.left and None.right do.
RECURSIVE DecodeLoop(_, _, _, _, _)
DecodeLoop(rt, temp_node, encoded_text, k, result) ==
    IF k > Len(encoded_text) THEN [exc |-> NoExc, value |-> result]
    ELSE IF temp_node = NoNode
    THEN [exc |-> "AttributeError", value |-> NoStr]
    ELSE LET bit == encoded_text[k]
             next == IF bit = "0" THEN temp_node.left ELSE temp_node.right
         IN IF next = NoNode
            THEN [exc |-> "AttributeError", value |-> NoStr]
            ELSE IF next.char # None
            THEN DecodeLoop(rt, rt, encoded_text, k + 1,
                            Append(result, next.char))
            ELSE DecodeLoop(rt, next, encoded_text, k + 1, result)

decode_text(rt, encoded_text) == DecodeLoop(rt, rt, encoded_text, 1, <<>>)

\* ------------------------------------------------------------ Caesar cipher
\* a character: a letter and whether it is the upper-case form
Char(letter, upper) == [letter |-> letter, upper |-> upper]

\* str.lower(), str.upper(), str.isupper() on one character; a character
\* without case has upper = FALSE and is its own upper-case form
Cased == {"a", "b", "v", "h", "g", "d", "e", "ye", "zh", "z", "y", "j", "i",
          "yi", "k", "l", "m", "n", "o", "p", "r", "s", "t", "u", "f", "kh",
          "ts", "ch", "sh", "shch", "soft", "yu", "ya", "latin_q"}

Lower(char) == Char(char.letter, FALSE)

Upper(char) == Char(char.letter, char.letter \in Cased)

IsUpper(char) == char.upper

\* the letters of default_alphabet, in its order, by transliterated name
DefaultLetters ==
    <<"a", "b", "v", "h", "g", "d", "e", "ye", "zh", "z", "y", "j", "i",
      "yi", "j", "k", "l", "m", "n", "o", "p", "r", "s", "t", "u", "f",
      "kh", "ts", "ch", "sh", "shch", "soft", "yu", "ya">>

default_alphabet == [k \in DOMAIN DefaultLetters |-> Char(DefaultLetters[k], FALSE)]

alphabet == default_alphabet

alphabet_size == Len(alphabet)

\* str.index(char): the position, from 0, of the first occurrence
Index(str, char) ==
    (CHOOSE k \in DOMAIN str :
        str[k] = char /\ \A j \in 1..(k - 1) : str[j] # char) - 1

\* the characters of the texts: every letter of the alphabet in both cases,
\* a space, and a Latin letter in both cases
Chars ==
    {Char(l, u) : l \in Cased, u \in BOOLEAN} \cup {Char("space", FALSE)}

CaesarTexts == SeqsUpTo(Chars, MaxCaesarLen)

Shifts == (0 - MaxShift)..MaxShift

\* the body of the for loop of encode_text for one character
EncodeChar(sh, char) ==
    IF Lower(char) \in Range(alphabet)
    THEN LET idx == Index(alphabet, Lower(char))
             new_idx == (idx + sh) % alphabet_size
             new_char == alphabet[new_idx + 1]
         IN IF IsUpper(char) THEN Upper(new_char) ELSE new_char
    ELSE char

\* the body of the for loop of decode_text for one character
DecodeChar(sh, char) ==
    IF Lower(char) \in Range(alphabet)
    THEN LET idx == Index(alphabet, Lower(char))
             new_idx == (idx - sh) % alphabet_size
             new_char == alphabet[new_idx + 1]
         IN IF IsUpper(char) THEN Upper(new_char) ELSE new_char
    ELSE char

\* CaesarCipher.encode_text and CaesarCipher.decode_text
caesar_encode_text(sh, text) == [k \in DOMAIN text |-> EncodeChar(sh, text[k])]

caesar_decode_text(sh, text) == [k \in DOMAIN text |-> DecodeChar(sh, text[k])]

\* ------------------------------------------------------------ the state machine
Init ==
    /\ base_text = [i \in Inst |-> NoStr]
    /\ nodes = [i \in Inst |-> <<>>]
    /\ copy_nodes = [i \in Inst |-> <<>>]
    /\ root = [i \in Inst |-> NoNode]
    /\ code_dict = [i \in Inst |-> NoDict]
    /\ pc = [i \in Inst |-> "new"]
    /\ exc = [i \in Inst |-> NoExc]
    /\ enc_arg = [i \in Inst |-> NoStr]
    /\ encoded = [i \in Inst |-> NoStr]
    /\ dec_arg = [i \in Inst |-> NoStr]
    /\ decoded = [i \in Inst |-> NoStr]
    /\ created = [i \in Inst |-> <<>>]
    /\ shift = NoShift
    /\ original = NoStr
    /\ enc_result = NoStr
    /\ dec_result = NoStr
    /\ caesar_pc = "new"

\* HuffmanBasedProcessor(text) up to the first loop test of
\* _create_root_of_tree: the text is kept, the leaves are made, HuffmanMethod
\* keeps the list and copies it
Construct(i, texts) ==
    /\ pc[i] = "new"
    /\ \E text \in texts :
          /\ base_text' = [base_text EXCEPT ![i] = text]
          /\ nodes' = [nodes EXCEPT ![i] = _create_huffman_tree(text)]
          /\ copy_nodes' = [copy_nodes EXCEPT ![i] = _create_huffman_tree(text)]
    /\ pc' = [pc EXCEPT ![i] = "merge"]
    /\ UNCHANGED <<root, code_dict, exc,
                   enc_arg, encoded, dec_arg, decoded, created>>
    /\ UNCHANGED caesarVars

\* MergeStep with a sort that is not stable: equal frequencies in any order
MergeStepUnstable(i) ==
    /\ pc[i] = "merge"
    /\ Len(copy_nodes[i]) > 1
    /\ \E p \in Permutations(DOMAIN copy_nodes[i]) :
          LET sorted == [k \in DOMAIN copy_nodes[i] |-> copy_nodes[i][p[k]]]
              new_node == Node(None,
                               sorted[1].frequency + sorted[2].frequency,
                               sorted[1], sorted[2])
          IN /\ \A k \in 1..(Len(sorted) - 1) :
                    sorted[k].frequency <= sorted[k + 1].frequency
             /\ copy_nodes' = [copy_nodes EXCEPT ![i] =
                    Append(SubSeq(sorted, 3, Len(sorted)), new_node)]
             /\ created' = [created EXCEPT ![i] = Append(@, new_node)]
    /\ UNCHANGED <<base_text, nodes, root, code_dict, pc, exc,
                   enc_arg, encoded, dec_arg, decoded>>
    /\ UNCHANGED caesarVars

\* HuffmanMethod(nodes) by itself, up to the first loop test: there is no
\* processor and no base text
ConstructMethod(i, nodelists) ==
    /\ pc[i] = "new"
    /\ \E nodelist \in nodelists :
          /\ nodes' = [nodes EXCEPT ![i] = nodelist]
          /\ copy_nodes' = [copy_nodes EXCEPT ![i] = nodelist]
    /\ pc' = [pc EXCEPT ![i] = "merge"]
    /\ UNCHANGED <<base_text, root, code_dict, exc,
                   enc_arg, encoded, dec_arg, decoded, created>>
    /\ UNCHANGED caesarVars

\* one pass of the while loop of _create_root_of_tree; the history variable
\* created records the node the pass appended
MergeStep(i) ==
    /\ pc[i] = "merge"
    /\ Len(copy_nodes[i]) > 1
    /\ LET after == MergeBody(copy_nodes[i])
           new_node == CHOOSE n \in Range(after) : n \notin Range(copy_nodes[i])
       IN /\ copy_nodes' = [copy_nodes EXCEPT ![i] = after]
          /\ created' = [created EXCEPT ![i] = Append(@, new_node)]
    /\ UNCHANGED <<base_text, nodes, root, code_dict, pc, exc,
                   enc_arg, encoded, dec_arg, decoded>>
    /\ UNCHANGED caesarVars

\* AssignRoot that returns on an empty list instead of indexing it
AssignRootLenient(i) ==
    /\ pc[i] = "merge"
    /\ Len(copy_nodes[i]) <= 1
    /\ IF Len(copy_nodes[i]) = 0
       THEN /\ pc' = [pc EXCEPT ![i] = "ready"]
            /\ UNCHANGED root
       ELSE /\ root' = [root EXCEPT ![i] = copy_nodes[i][1]]
            /\ pc' = [pc EXCEPT ![i] = "codes"]
    /\ UNCHANGED <<base_text, nodes, copy_nodes, code_dict, exc,
                   enc_arg, encoded, dec_arg, decoded, created>>
    /\ UNCHANGED caesarVars

\* self.root = copy_nodes[0] after the loop; on an empty list the index
\* raises and the constructor is left with no root and no code_dict set
AssignRoot(i) ==
    /\ pc[i] = "merge"
    /\ Len(copy_nodes[i]) <= 1
    /\ IF Len(copy_nodes[i]) = 0
       THEN /\ exc' = [exc EXCEPT ![i] = "IndexError"]
            /\ pc' = [pc EXCEPT ![i] = "failed"]
            /\ UNCHANGED root
       ELSE /\ root' = [root EXCEPT ![i] = copy_nodes[i][1]]
            /\ pc' = [pc EXCEPT ![i] = "codes"]
            /\ UNCHANGED exc
    /\ UNCHANGED <<base_text, nodes, copy_nodes, code_dict,
                   enc_arg, encoded, dec_arg, decoded, created>>
    /\ UNCHANGED caesarVars

\* self._generate_codes(self.root); the constructors return
GenerateCodes(i) ==
    /\ pc[i] = "codes"
    /\ code_dict' = [code_dict EXCEPT ![i] = _generate_codes(root[i], <<>>)]
    /\ pc' = [pc EXCEPT ![i] = "ready"]
    /\ UNCHANGED <<base_text, nodes, copy_nodes, root, exc,
                   enc_arg, encoded, dec_arg, decoded, created>>
    /\ UNCHANGED caesarVars

\* HuffmanBasedProcessor.encode_text(text), where None stands for the base
\* text, and HuffmanMethod.encode_text(text), which has to be given a text
EncodeText(i, texts) ==
    /\ pc[i] = "ready"
    /\ \E text \in texts :
          /\ text = NoStr => base_text[i] # NoStr
          /\ LET arg == IF text = NoStr THEN base_text[i] ELSE text
                 r == encode_text(code_dict[i], arg)
             IN /\ enc_arg' = [enc_arg EXCEPT ![i] = arg]
                /\ encoded' = [encoded EXCEPT ![i] = r.value]
                /\ exc' = [exc EXCEPT ![i] = r.exc]
    /\ pc' = [pc EXCEPT ![i] = "encoded"]
    /\ UNCHANGED <<base_text, nodes, copy_nodes, root, code_dict,
                   dec_arg, decoded, created>>
    /\ UNCHANGED caesarVars

\* HuffmanBasedProcessor.decode_text(text)
Decode(i, text) ==
    /\ LET r == decode_text(root[i], text)
       IN /\ dec_arg' = [dec_arg EXCEPT ![i] = text]
          /\ decoded' = [decoded EXCEPT ![i] = r.value]
          /\ exc' = [exc EXCEPT ![i] = r.exc]
    /\ pc' = [pc EXCEPT ![i] = "decoded"]
    /\ UNCHANGED <<base_text, nodes, copy_nodes, root, code_dict,
                   enc_arg, encoded, created>>
    /\ UNCHANGED caesarVars

\* decode_text on a string of the caller's own
DecodeText(i, strings) ==
    /\ pc[i] = "ready"
    /\ \E text \in strings : Decode(i, text)

\* decode_text(encode_text(...)): on what encode_text returned
DecodeEncoded(i) ==
    /\ pc[i] = "encoded"
    /\ exc[i] = NoExc
    /\ Decode(i, encoded[i])

\* the non-empty proper prefixes of the codes of a code table
ProperPrefixes(cd) ==
    UNION {{SubSeq(cd[c], 1, n) : n \in 1..(Len(cd[c]) - 1)} : c \in DOMAIN cd}

\* decode_text on what encode_text returned with its end cut inside a code:
\* a stream that stops in the middle of a symbol
DecodeTruncated(i) ==
    /\ pc[i] = "encoded"
    /\ exc[i] = NoExc
    /\ \E p \in ProperPrefixes(code_dict[i]) : Decode(i, encoded[i] \o p)

\* one object, built and then used.  encode_text and decode_text write no
\* attribute of the object, so one use stands for all: an encode_text and a
\* decode_text of its result, or a decode_text of a string of the caller's.
Next ==
    \/ Construct(1, Texts)
    \/ ConstructMethod(1, NodeLists)
    \/ MergeStep(1)
    \/ AssignRoot(1)
    \/ GenerateCodes(1)
    \/ EncodeText(1, EncArgs)
    \/ DecodeText(1, TokenStrings)
    \/ DecodeEncoded(1)
    \/ DecodeTruncated(1)

Spec == Init /\ [][Next]_vars

\* each text with the leaves HuffmanBasedProcessor makes of it
TextTables == {<<text, _create_huffman_tree(text)>> : text \in Texts}

\* the lists of leaves of the objects built so far, object i aside
Built(i) == {nodes[j] : j \in {k \in Inst \ {i} : pc[k] # "new"}}

\* the inputs that give object i the frequency table of the objects built
SameTableTexts(i) ==
    IF Built(i) = {} THEN Texts
    ELSE {p[1] : p \in {q \in TextTables : q[2] \in Built(i)}}

SameTableNodeLists(i) ==
    IF Built(i) = {} THEN NodeLists ELSE Built(i) \cap NodeLists

\* two objects built independently of each other from one frequency table
NextTwo ==
    \E i \in Inst :
        \/ Construct(i, SameTableTexts(i))
        \/ ConstructMethod(i, SameTableNodeLists(i))
        \/ MergeStep(i)
        \/ AssignRoot(i)
        \/ GenerateCodes(i)

SpecTwo == Init /\ [][NextTwo]_vars

\* CaesarCipher(shift), with the default alphabet
CaesarConstruct ==
    /\ caesar_pc = "new"
    /\ \E sh \in Shifts : shift' = sh
    /\ caesar_pc' = "ready"
    /\ UNCHANGED <<original, enc_result, dec_result>>
    /\ UNCHANGED huffmanVars

\* enc_result = cesar_cipher.encode_text(original)
CaesarEncode ==
    /\ caesar_pc = "ready"
    /\ \E text \in CaesarTexts :
          /\ original' = text
          /\ enc_result' = caesar_encode_text(shift, text)
    /\ caesar_pc' = "encoded"
    /\ UNCHANGED <<shift, dec_result>>
    /\ UNCHANGED huffmanVars

\* dec_result = cesar_cipher.decode_text(enc_result)
CaesarDecode ==
    /\ caesar_pc = "encoded"
    /\ dec_result' = caesar_decode_text(shift, enc_result)
    /\ caesar_pc' = "decoded"
    /\ UNCHANGED <<shift, original, enc_result>>
    /\ UNCHANGED huffmanVars

\* one cipher, made and then used as the main block uses it
NextCaesar ==
    \/ CaesarConstruct
    \/ CaesarEncode
    \/ CaesarDecode

SpecCaesar == Init /\ [][NextCaesar]_vars

\* ------------------------------------------------------------ properties
HasCodes(i) == pc[i] \in {"ready", "encoded", "decoded"}

IsPrefix(p, q) == Len(p) <= Len(q) /\ SubSeq(q, 1, Len(p)) = p

CodeLengths(cd) == [c \in DOMAIN cd |-> Len(cd[c])]

Unknown(i) == {k \in DOMAIN enc_arg[i] : enc_arg[i][k] \notin DOMAIN code_dict[i]}

RECURSIVE Concat(_)
Concat(seqs) ==
    IF seqs = <<>> THEN <<>> ELSE Head(seqs) \o Concat(Tail(seqs))

RECURSIVE SumSeq(_)
SumSeq(s) == IF s = <<>> THEN 0 ELSE Head(s) + SumSeq(Tail(s))

\* the sum over the leaves below node of depth times frequency
RECURSIVE WeightedPathLength(_, _)
WeightedPathLength(node, depth) ==
    IF node.left = NoNode /\ node.right = NoNode
    THEN depth * node.frequency
    ELSE WeightedPathLength(node.left, depth + 1)
             + WeightedPathLength(node.right, depth + 1)

\* the code lengths a binary prefix code can have for n symbols (Kraft's
\* inequality: the sum of 2^-l is at most 1), none longer than n
PrefixCodeLengths(n) ==
    {l \in [1..n -> 0..n] : SumSeq([k \in 1..n |-> 2^(n - l[k])]) <= 2^n}

\* the least weighted length of a binary prefix code for the weights w
MinWeightedLength(w) ==
    LET costs == {SumSeq([k \in DOMAIN w |-> l[k] * w[k]]) :
                      l \in PrefixCodeLengths(Len(w))}
    IN CHOOSE c \in costs : \A d \in costs : c <= d

\* C1: decode_text(encode_text(S)) on the processor built on a non-empty
\* text S returns S.
RoundTrip ==
    \A i \in Inst :
        (/\ base_text[i] \notin {NoStr, <<>>}
         /\ pc[i] = "decoded"
         /\ enc_arg[i] = base_text[i]
         /\ dec_arg[i] = encoded[i])
            => (exc[i] = NoExc /\ decoded[i] = base_text[i])

CodesNonEmpty ==
    \A i \in Inst :
        HasCodes(i) =>
            /\ \A c \in DOMAIN code_dict[i] : Len(code_dict[i][c]) >= 1
            /\ Len(nodes[i]) = 1 =>
                   \A c \in DOMAIN code_dict[i] : Len(code_dict[i][c]) = 1

\* C5: in the code table of any non-empty frequency table, no code of a
\* symbol is a prefix of the code of another symbol.
PrefixFree ==
    \A i \in Inst :
        HasCodes(i) =>
            \A c \in DOMAIN code_dict[i] :
                \A d \in DOMAIN code_dict[i] \ {c} :
                    ~IsPrefix(code_dict[i][c], code_dict[i][d])

\* four symbols with codes of unequal lengths
PrefixFreeWitness ==
    /\ pc[1] = "ready"
    /\ Cardinality(DOMAIN code_dict[1]) = 4
    /\ \E c \in DOMAIN code_dict[1] : Len(code_dict[1][c]) = 3

\* C6: the tree the merge loop leaves has the least weighted path length of
\* all binary prefix codes for the frequencies.
Optimal ==
    \A i \in Inst :
        pc[i] = "codes" =>
            WeightedPathLength(root[i], 0) =
                MinWeightedLength([k \in DOMAIN nodes[i] |-> nodes[i][k].frequency])

\* four leaves of unequal frequencies whose tree is not the balanced one
OptimalWitness ==
    /\ pc[1] = "codes"
    /\ Len(nodes[1]) = 4
    /\ root[1].left.char # None
    /\ \E k \in DOMAIN nodes[1] : nodes[1][k].frequency > 1

\* C7 as stated: the frequencies a:5 b:9 c:12 d:13 e:16 f:45 give the code
\* lengths f:1 c:3 b:3 d:3 a:4 e:3.
TextbookLengthsAsStated ==
    \A i \in Inst :
        (HasCodes(i) /\ nodes[i] = TextbookNodes)
            => CodeLengths(code_dict[i]) =
                   [a |-> 4, b |-> 3, c |-> 3, d |-> 3, e |-> 3, f |-> 1]

\* C7 as amended: the frequencies a:5 b:9 c:12 d:13 e:16 f:45 give the code
\* lengths f:1 c:3 b:4 d:3 a:4 e:3.
TextbookLengths ==
    \A i \in Inst :
        (HasCodes(i) /\ nodes[i] = TextbookNodes)
            => CodeLengths(code_dict[i]) =
                   [a |-> 4, b |-> 4, c |-> 3, d |-> 3, e |-> 3, f |-> 1]

\* the code table of the textbook frequencies
TextbookWitness == pc[1] = "ready" /\ nodes[1] = TextbookNodes

NonBinaryTokenRaises ==
    \A i \in Inst :
        (/\ Len(nodes[i]) >= 2
         /\ pc[i] = "decoded"
         /\ \E k \in DOMAIN dec_arg[i] : dec_arg[i][k] \notin {"0", "1"})
            => (exc[i] = "CorruptStream" /\ decoded[i] = NoStr)

\* C10: on any tree, that of one leaf included, decode_text walks every
\* string of "0" and "1" to its end without an error.
BinaryWalkCompletes ==
    \A i \in Inst :
        (pc[i] = "decoded" /\ \A k \in DOMAIN dec_arg[i] :
                                  dec_arg[i][k] \in {"0", "1"})
            => exc[i] = NoExc

\* C11: on a tree of two symbols or more, decode_text of the encoding of a
\* text S over the alphabet followed by a non-empty proper prefix of a code
\* returns S: no error, no symbol more; a symbol is emitted only on a leaf,
\* from where the walk goes back to the root.
TruncatedDropsPartial ==
    \A i \in Inst :
        (/\ Len(nodes[i]) >= 2
         /\ pc[i] = "decoded"
         /\ Unknown(i) = {}
         /\ \E p \in ProperPrefixes(code_dict[i]) :
                dec_arg[i] = encoded[i] \o p)
            => (exc[i] = NoExc /\ decoded[i] = enc_arg[i])

\* a text of two symbols or more decoded from its encoding and half a code
TruncatedWitness ==
    /\ pc[1] = "decoded"
    /\ Len(enc_arg[1]) >= 2
    /\ Unknown(1) = {}
    /\ Len(dec_arg[1]) > Len(encoded[1])
    /\ encoded[1] # NoStr
    /\ decoded[1] = enc_arg[1]

\* a node and everything below it: a leaf holds a symbol and no children; an
\* internal node holds no symbol, two children, the sum of their weights, and
\* the lighter (or equal) child on the left
RECURSIVE WellFormedNode(_)
WellFormedNode(n) ==
    IF n.char # None
    THEN n.left = NoNode /\ n.right = NoNode
    ELSE /\ n.left # NoNode
         /\ n.right # NoNode
         /\ n.frequency = n.left.frequency + n.right.frequency
         /\ n.left.frequency <= n.right.frequency
         /\ WellFormedNode(n.left)
         /\ WellFormedNode(n.right)

Frequencies(s) == [k \in DOMAIN s |-> s[k].frequency]

HasRoot(i) == pc[i] \in {"codes", "ready", "encoded", "decoded"}

WellFormedTrees ==
    \A i \in Inst :
        /\ \A k \in DOMAIN copy_nodes[i] : WellFormedNode(copy_nodes[i][k])
        /\ HasRoot(i) =>
               /\ WellFormedNode(root[i])
               /\ root[i].frequency = SumSeq(Frequencies(nodes[i]))

\* a step of instance i is a merge step when its candidate list gets shorter
IsMerge(i) ==
    /\ pc[i] = "merge"
    /\ Len(copy_nodes'[i]) < Len(copy_nodes[i])

\* the candidate a merge step added, and the candidates it left in the list
NewNode(i) ==
    CHOOSE n \in Range(copy_nodes'[i]) : n \notin Range(copy_nodes[i])

Survivors(i) == Range(copy_nodes'[i]) \ {NewNode(i)}

\* the merge step removes two candidates and adds one internal node over
\* them: the left child is a lightest candidate of the list, the right child
\* a lightest of the others, and the others all survive
MergeTakesSmallest(i) ==
    IsMerge(i) =>
        LET new_node == NewNode(i)
            before == Range(copy_nodes[i])
            rest == Survivors(i)
        IN /\ Len(copy_nodes'[i]) = Len(copy_nodes[i]) - 1
           /\ new_node.char = None
           /\ new_node.left \in before
           /\ new_node.right \in before \ {new_node.left}
           /\ rest = before \ {new_node.left, new_node.right}
           /\ \A c \in before : new_node.left.frequency <= c.frequency
           /\ \A c \in rest : new_node.right.frequency <= c.frequency

\* C12: after every merge step every internal node holds no symbol, has two
\* children, weighs the sum of its children, and has as left child the
\* candidate extracted first (a lightest one, so left weight <= right
\* weight); every leaf holds a symbol and no children; once construction has
\* finished, the root weighs the sum of all input frequencies.
MergeKeepsTreesWellFormed ==
    /\ []WellFormedTrees
    /\ [][\A i \in Inst : MergeTakesSmallest(i)]_vars

\* three symbols or more were merged into one root: the root has an internal
\* node as a child, and the two children have different weights
WellFormedWitness ==
    /\ pc[1] = "codes"
    /\ Len(nodes[1]) >= 3
    /\ root[1].char = None
    /\ root[1].left.frequency < root[1].right.frequency
    /\ root[1].frequency = SumSeq(Frequencies(nodes[1]))

\* when a node entered the candidate set of object i: the leaves in the
\* order of the frequency table, then the internal nodes as they were made
Age(i, n) ==
    IF n.char # None
    THEN CHOOSE k \in DOMAIN nodes[i] : nodes[i][k] = n
    ELSE Len(nodes[i]) + CHOOSE k \in DOMAIN created[i] : created[i][k] = n

\* the node selected first is older than every other candidate of its
\* weight, the node selected second older than every remaining one of its
\* weight
OldestOfEqualFirst(i) ==
    IsMerge(i) =>
        LET left_p == NewNode(i).left
            right_p == NewNode(i).right
            before == Range(copy_nodes[i])
        IN /\ \A c \in before \ {left_p} :
                  c.frequency = left_p.frequency
                      => Age(i, left_p) < Age(i, c)
           /\ \A c \in before \ {left_p, right_p} :
                  c.frequency = right_p.frequency
                      => Age(i, right_p) < Age(i, c)

\* C13: at every merge step, of candidates of equal weight the one that
\* entered the candidate set earlier (leaves in the order of the frequency
\* table, then internal nodes in the order they were made) is selected
\* before the later one; so a new internal node is never selected ahead of
\* an older surviving candidate of its weight.
TieBreak == [][\A i \in Inst : OldestOfEqualFirst(i)]_vars

\* a leaf was selected ahead of the internal node of the same weight made in
\* the pass before
TieBreakWitness ==
    /\ Len(created[1]) >= 2
    /\ created[1][2].left.char # None
    /\ created[1][2].right = created[1][1]
    /\ created[1][2].left.frequency = created[1][2].right.frequency

\* C14: with the default alphabet and any shift, decode_text(encode_text(t))
\* is t for every text t: every letter of the alphabet, in either case,
\* comes back as itself, and every other character is left as it is.
CaesarRoundTrip == caesar_pc = "decoded" => dec_result = original

==============================================================================
